---- MODULE Spec2Model ----
(***************************************************************************)
(* The headless voice-interaction controller of punjabi_sts (src/gpio):    *)
(* PunjabiPiApp (main.js), AudioHandler (audio_handler.js), the indicator  *)
(* part of GpioHandler (gpio_handler.js) and the result contract of        *)
(* AIServices (ai_services.js).                                            *)
(*                                                                         *)
(* Node runs one callback at a time: a GPIO watch callback, a timer        *)
(* callback, a stream event or the completion of an external call.  An     *)
(* await of an already settled promise resumes in the microtask queue,     *)
(* before any other callback runs.  Each action below is therefore one     *)
(* callback together with the microtask continuations it triggers.         *)
(*                                                                         *)
(* The socket gateway of the web backend (src/backend/src:                 *)
(* SpeechTranslatorGateway and the SpeechTranslatorService it shares among *)
(* its clients) is a second program; it is modelled at the end of the      *)
(* state, and SpecGateway runs it.                                         *)
(***************************************************************************)
EXTENDS Integers, Sequences, FiniteSets, Bags, TLC

(* ------------------------------ bounds -------------------------------- *)
\* Exchanges (transcripts) one conversation history is followed through.
MaxExchanges == 6
\* Sockets that connect to the gateway.
MaxClients == 2
\* speech-to-text messages the gateway receives; each is followed through
\* every await of its handler while the other messages arrive.
MaxRequests == 1
\* Exchanges one history is followed through in SpecLive, where the
\* properties that do not read the history's contents are checked.
MaxLiveExchanges == 1
\* Duration timers and stopRecording file reads outstanding at once.
MaxTimers == 2
\* Announcements made outside a session (speech syntheses or playbacks) in
\* flight at once; two of them can overlap.
MaxAnnouncements == 2
\* Replies of earlier sessions still being played at once.
MaxReplies == 1
\* Announcements made outside a session that may still be in flight when a
\* record press is accepted.
MaxBackground == 0
\* Voices configured in PUNJABI_VOICE_NAMES (config.js:28-37 reads the list
\* from the environment).
VoiceCount == 2

(* ------------------------- program constants -------------------------- *)
\* main.js:133-135  "if (length > 10) history = history.slice(-10)"
HistoryCap == 10
\* main.js:18
availableModels == <<"gpt", "openrouter", "fireworks">>
\* config.js:41
DEFAULT_MODEL == "gpt"
\* config.js:30-37, the list used when the environment configures none
DefaultVoiceNames ==
  <<"pa-IN-Standard-A", "pa-IN-Standard-B", "pa-IN-Standard-C",
    "pa-IN-Wavenet-A", "pa-IN-Wavenet-B", "pa-IN-Wavenet-C">>
\* config.js:28-29, the configured list: the first VoiceCount default names
PUNJABI_VOICE_NAMES ==
  [i \in 1..VoiceCount |->
     IF i <= Len(DefaultVoiceNames) THEN DefaultVoiceNames[i] ELSE "pa-IN-Other"]
\* config.js:38
ENGLISH_VOICE_NAME == "en-US-Standard-C"
\* audio_handler.js:11  this.recording = null
NoRecording == "null"

\* The fixed English utterances of processAudio (main.js:141,150,157,166).
SorryProcess == <<"Sorry, I could not process that.", 0>>
DidNotCatch == <<"I did not catch that, please try again.", 0>>
SorryUnderstand == <<"Sorry, there was an error understanding you.", 0>>
UnexpectedError == <<"An unexpected error occurred.", 0>>
\* The announcements made outside a session (main.js:30,190,208).
Welcome == <<"Welcome!", 0>>
SwitchedModel == <<"Switched to model.", 0>>
SwitchedVoice == <<"Switched to Punjabi voice.", 0>>
\* What a session hears back: the transcript of capture n, the model's reply
\* to it, and the text getAiResponse returns when the API call throws
\* (ai_services.js:218).
Transcript(n) == <<"transcript", n>>
Reply(n) == <<"reply", n>>
ApiErrorText(n) == <<"Error communicating with API.", n>>
NoUtterance == <<"", 0>>

VARIABLES
  \* PunjabiPiApp (main.js:16-23)
  isInteracting, currentModel, currentPunjabiVoiceIndex, currentPunjabiVoice,
  conversationHistory,
  \* AudioHandler (audio_handler.js:10-11) and the recorder process it spawns
  isRecording, recording, recorderRunning,
  \* temp_recording.wav exists (audio_handler.js:12,85)
  recordingFile,
  \* GpioHandler.ledActive (gpio_handler.js:35,39)
  ledActive,
  \* armed duration timers (audio_handler.js:113): how many were armed by the
  \* latest capture (own) and how many by earlier captures (stale)
  durationTimers,
  \* armed checkRecordingInterval intervals (main.js:94)
  pollIntervals,
  \* stopRecording promises waiting for the 200 ms delay and the file read
  \* (audio_handler.js:143-161): a bag of [caller, own], own as for the timers
  stopCalls,
  \* processAudio (main.js:110-176): the await it is suspended at, the number
  \* of its transcript, the outcomes of its stages, the text it announces
  pc, transcript, stages, utterance, utteranceVoice,
  \* the conversation_history argument of the getAiResponse call in flight
  llmHistory,
  \* announceMessage calls made outside a session, waiting for textToSpeech
  announcements,
  \* playbacks started by playAudioMp3 that have not finished, in the order
  \* they started: "session" for a session's announcement, else "detached"
  playing,
  \* temp_playback.mp3 exists (audio_handler.js:59-60)
  playbackFile,
  \* the last console line of a handler
  lastLog,
  \* observation of the open session's capture: the teardowns performed, what
  \* ended it, and the result of the file read of its teardown ("audio" or
  \* "error", "none" before)
  teardowns, endedBy, capturedAudio,
  \* the process is alive; the status LED (gpio_handler.js:34,38); the GPIO
  \* lines are exported (gpio_handler.js:11-35)
  running, ledStatus, gpioExported,
  \* what cleanup did, in the order it did it, and the controller state the
  \* signal arrived in (main.js:214-229)
  cleanupSteps, exitedFrom,
  \* GpioHandler after its constructor (gpio_handler.js:11-103): its lines are
  \* the mock objects of the catch block; the watch callbacks of the buttons
  \* are registered on real lines; the errors it has reported
  gpioMock, buttonsWatched, gpioErrors,
  \* the socket gateway.  socket.io's view of each client id: "new" before it
  \* connects, then "connected", then "disconnected"; an id is never reused
  sockets,
  \* client.data of each socket (speech-translator.gateway.ts:662-663)
  clientData,
  \* SpeechTranslatorGateway.clientLanguages and clientConversations
  \* (speech-translator.gateway.ts:597-598): maps keyed by client id.  A
  \* conversation entry holds a reference to an array
  clientLanguages, clientConversations,
  \* the ChatMessage arrays that exist, by the reference that names them
  arrays,
  \* SpeechTranslatorService.apiProvider and useRag
  \* (speech-translator.service.ts:42-43), one service for all clients
  apiProvider, useRag,
  \* the speech-to-text requests received, in the order they arrived: the
  \* client, the await the handler is suspended at, its conversationHistory
  \* reference, the branch generateAIResponse's switch took and what was
  \* emitted to the client
  requests,
  \* observation: the provider each client last named in a message of its
  \* own ("none" before it names one)
  selectedProvider

appVars == <<isInteracting, currentModel, currentPunjabiVoiceIndex,
             currentPunjabiVoice, conversationHistory>>
audioVars == <<isRecording, recording, recorderRunning, recordingFile>>
timerVars == <<durationTimers, pollIntervals, stopCalls>>
pipeVars == <<pc, transcript, stages, utterance, utteranceVoice, llmHistory>>
playVars == <<announcements, playing, playbackFile>>
obsVars == <<teardowns, endedBy, capturedAudio>>
sysVars == <<running, ledStatus, gpioExported, cleanupSteps, exitedFrom,
             gpioMock, buttonsWatched, gpioErrors>>
deviceVars == <<appVars, audioVars, ledActive, timerVars, pipeVars, playVars,
                lastLog, obsVars, sysVars>>
gatewayVars == <<sockets, clientData, clientLanguages, clientConversations,
                 arrays, apiProvider, useRag, requests, selectedProvider>>
vars == <<deviceVars, gatewayVars>>

NoStages == [stt |-> "none", llm |-> "none"]

(* ------------------------------ helpers ------------------------------- *)
\* Array.prototype.indexOf: 0-based position of the first match, -1 if none.
indexOf(seq, x) ==
  IF \E i \in 1..Len(seq) : seq[i] = x
  THEN (CHOOSE i \in 1..Len(seq) :
          seq[i] = x /\ \A j \in 1..(i - 1) : seq[j] # x) - 1
  ELSE -1

\* 0-based array read.
at(seq, i) == seq[i + 1]

\* Array.prototype.slice(-n): the last n elements (all of them if fewer).
sliceLast(seq, n) ==
  IF Len(seq) <= n THEN seq ELSE SubSeq(seq, Len(seq) - n + 1, Len(seq))

\* a sequence without its i-th element
without(seq, i) ==
  [j \in 1..(Len(seq) - 1) |-> IF j < i THEN seq[j] ELSE seq[j + 1]]

\* the accesses to hardware lines in GpioHandler's constructor, in the order
\* it makes them (gpio_handler.js:12-39); the watch calls follow (42-82)
hardwareAccesses ==
  <<"new Gpio(BUTTON_PIN_RECORD)", "new Gpio(BUTTON_PIN_SWITCH_MODEL)",
    "new Gpio(BUTTON_PIN_SWITCH_VOICE)", "new Gpio(LED_PIN_STATUS)",
    "new Gpio(LED_PIN_ACTIVE)", "ledStatus.writeSync(1)",
    "ledActive.writeSync(0)">>

\* the constructor with the watch callbacks registered right after the
\* button lines are opened, before the LED lines
GpioHandlerWatchesFirst(failAt) ==
  [mock |-> failAt # 0,
   watches |-> failAt = 0 \/ failAt > 3,
   errors |-> IF failAt = 0 THEN 0 ELSE 1]

\* GpioHandler's constructor (gpio_handler.js:5-104) when the access
\* hardwareAccesses[failAt] throws (failAt = 0: none does): the catch block
\* reports the failure and replaces all five lines by mock objects; the
\* watch callbacks are registered only after the last hardware access
GpioHandler(failAt) ==
  [mock |-> failAt # 0,
   watches |-> failAt = 0,
   errors |-> IF failAt = 0 THEN 0 ELSE 1]

\* the methods of the mock objects (gpio_handler.js:92-102)
mockButton == {"watch", "unexport"}
mockLed == {"writeSync", "unexport"}
mockSupports(call) ==
  call[2] \in (IF call[1] = "button" THEN mockButton ELSE mockLed)

\* the calls PunjabiPiApp makes on the lines after construction: setStatusLed
\* (main.js:28), GpioHandler.cleanup (gpio_handler.js:127-133) and
\* setStatusLed again (main.js:218)
laterGpioCalls ==
  <<<<"led", "writeSync">>, <<"led", "writeSync">>, <<"led", "writeSync">>,
    <<"button", "unexport">>, <<"button", "unexport">>,
    <<"button", "unexport">>, <<"led", "unexport">>, <<"led", "unexport">>,
    <<"led", "writeSync">>>>

(* ------------------------- the socket gateway -------------------------- *)
\* The ids socket.io gives the sockets that connect.
Clients == 1..MaxClients
\* ApiProvider (speech-translator.service.ts:34)
ApiProviders == {"gpt", "openrouter", "fireworks"}
\* SUPPORTED_LANGUAGES (speech-translator.gateway.ts:565)
SUPPORTED_LANGUAGES == {"en-US", "hi-IN", "pa-IN", "mr-IN"}
\* The languages clients name in their messages: a supported one other than
\* the default and one that is not supported.
MessageLanguages == {"pa-IN", "fr-FR"}
\* The payload of a speech-to-text message (speech-translator.gateway.ts:
\* 570-576, 712): apiProvider and useRag are optional.
SpeechToTextPayloads ==
  [apiProvider : ApiProviders \cup {"undefined"},
   useRag : {"true", "false", "undefined"},
   language : MessageLanguages]

\* Map.prototype.set, delete, has and get on a map held as a function.
MapSet(map, key, value) ==
  [k \in DOMAIN map \cup {key} |-> IF k = key THEN value ELSE map[k]]
MapDelete(map, key) == [k \in DOMAIN map \ {key} |-> map[k]]
MapHas(map, key) == key \in DOMAIN map
MapGet(map, key) == IF MapHas(map, key) THEN map[key] ELSE "undefined"
EmptyMap == [k \in {} |-> "undefined"]

\* The messages of a conversation: the system prompt, the transcription of
\* request r and the cleaned response to it.
systemPrompt == [role |-> "system", content |-> <<"systemPrompt", 0>>]
userMessage(r) == [role |-> "user", content |-> <<"transcription", r>>]
assistantMessage(r) == [role |-> "assistant", content |-> <<"response", r>>]

\* client.data before handleConnection has filled it
NoClientData ==
  [apiProvider |-> "undefined", useRag |-> FALSE, languageCode |-> "undefined"]

\* The gateway and the service after Nest has constructed them
\* (speech-translator.gateway.ts:597-598, speech-translator.service.ts:42-43).
GatewayInit ==
  /\ sockets = [c \in Clients |-> "new"]
  /\ clientData = [c \in Clients |-> NoClientData]
  /\ clientLanguages = EmptyMap
  /\ clientConversations = EmptyMap
  /\ arrays = EmptyMap
  /\ apiProvider = "gpt"
  /\ useRag = TRUE
  /\ requests = <<>>
  /\ selectedProvider = [c \in Clients |-> "none"]

\* the state after PunjabiPiApp's constructor (main.js:7-34) when
\* config.DEFAULT_MODEL is defaultModel
InitWith(defaultModel) ==
  /\ \E failAt \in 0..Len(hardwareAccesses) :
       LET gpioHandler == GpioHandler(failAt)
       IN /\ gpioMock = gpioHandler.mock
          /\ buttonsWatched = gpioHandler.watches
          /\ gpioErrors = gpioHandler.errors
  /\ isInteracting = FALSE
  /\ currentModel = defaultModel
  /\ currentPunjabiVoiceIndex = 0
  /\ currentPunjabiVoice = at(PUNJABI_VOICE_NAMES, 0)
  /\ conversationHistory = <<>>
  /\ isRecording = FALSE
  /\ recording = NoRecording
  /\ recorderRunning = FALSE
  /\ recordingFile = FALSE
  /\ ledActive = FALSE
  /\ durationTimers = [own |-> 0, stale |-> 0]
  /\ pollIntervals = 0
  /\ stopCalls = EmptyBag
  /\ pc = "none"
  /\ transcript = 0
  /\ stages = NoStages
  /\ utterance = NoUtterance
  /\ utteranceVoice = ""
  /\ llmHistory = <<>>
  \* the constructor's welcome announcement (main.js:29-33) is in flight
  /\ announcements = <<[text |-> Welcome, voice |-> ENGLISH_VOICE_NAME]>>
  /\ playing = <<>>
  /\ playbackFile = FALSE
  /\ lastLog = "Punjabi Pi App initialized."
  /\ teardowns = 0
  /\ endedBy = "none"
  /\ capturedAudio = "none"
  /\ running = TRUE
  \* gpio_handler.js:38-39 and main.js:28: the last value written to the
  \* status line, real or mock
  /\ ledStatus = TRUE
  /\ gpioExported = TRUE
  /\ cleanupSteps = <<>>
  /\ exitedFrom = "none"
  /\ GatewayInit

\* the environment does not set DEFAULT_MODEL
Init == InitWith(DEFAULT_MODEL)

\* config.js:41 takes DEFAULT_MODEL from the environment as it is: one of the
\* three models, or any other string
EnvDefaultModels == {"gpt", "openrouter", "fireworks", "llama"}
InitAnyEnvironment == \E defaultModel \in EnvDefaultModels : InitWith(defaultModel)

(* ---------------------------- AudioHandler ----------------------------- *)
\* audio_handler.js:131: the guard under which stopRecording returns null.
stopReturnsNull == ~isRecording \/ recording = NoRecording

\* the timers and file reads of earlier captures, once a new capture starts
staleTimers(t) == [own |-> 0, stale |-> t.stale + t.own]
staleCalls(B) ==
  LET old == {[e EXCEPT !.own = FALSE] : e \in BagToSet(B)}
  IN [e \in old |-> CopiesIn(e, B) + CopiesIn([e EXCEPT !.own = TRUE], B)]

\* startRecording without the isRecording test of audio_handler.js:76-79
startRecordingUnguarded ==
  /\ isRecording' = TRUE
  /\ recordingFile' = TRUE
  /\ recording' = "recorder"
  /\ recorderRunning' = TRUE
  /\ durationTimers' = [staleTimers(durationTimers) EXCEPT !.own = 1]
  /\ stopCalls' = staleCalls(stopCalls)
  /\ teardowns' = 0
  /\ endedBy' = "none"
  /\ capturedAudio' = "none"

\* AudioHandler.startRecording (audio_handler.js:75-128)
startRecording ==
  IF isRecording
  THEN UNCHANGED <<isRecording, recording, recorderRunning, recordingFile,
                   durationTimers, stopCalls, obsVars>>
  ELSE /\ isRecording' = TRUE
       \* audio_handler.js:85: createWriteStream creates or truncates the file
       /\ recordingFile' = TRUE
       /\ recording' = "recorder"
       /\ recorderRunning' = TRUE
       /\ durationTimers' = [staleTimers(durationTimers) EXCEPT !.own = 1]
       /\ stopCalls' = staleCalls(stopCalls)
       /\ teardowns' = 0
       /\ endedBy' = "none"
       /\ capturedAudio' = "none"

\* AudioHandler.stopRecording up to its return (audio_handler.js:130-143):
\* either null, or the teardown and a promise that waits for the file read.
stopRecording(caller) ==
  IF stopReturnsNull
  THEN UNCHANGED <<isRecording, recorderRunning, stopCalls>>
  ELSE /\ recorderRunning' = FALSE
       /\ isRecording' = FALSE
       /\ stopCalls' = stopCalls (+) SetToBag({[caller |-> caller, own |-> TRUE]})

\* what a stopRecording call adds to the observation of the open session;
\* a duration timer armed by an earlier capture is told apart ("stale timer")
stopObserved(caller) ==
  IF stopReturnsNull
  THEN UNCHANGED <<teardowns, endedBy>>
  ELSE /\ teardowns' = teardowns + 1
       /\ endedBy' = caller

\* the session is over: its observation is dropped
sessionObservedOver ==
  /\ teardowns' = 0
  /\ endedBy' = "none"
  /\ capturedAudio' = "none"

\* what startRecording returns (audio_handler.js:78, 127)
startRecordingReturns == ~isRecording

\* a caller of AudioHandler calls startRecording() in any state of the
\* handler, as the module's own test does (audio_handler.js:182-186)
callStartRecording ==
  /\ \/ isRecording
     \/ durationTimers.own + durationTimers.stale + BagCardinality(stopCalls)
          < MaxTimers
  /\ startRecording
  /\ lastLog' = IF startRecordingReturns
                THEN "Recording to temp_recording.wav."
                ELSE "Recording is already in progress."
  /\ UNCHANGED <<appVars, ledActive, pollIntervals, pipeVars, playVars>>

\* a caller of AudioHandler calls stopRecording() in any state of the handler
\* (audio_handler.js:196, 210)
callStopRecording ==
  /\ stopRecording("caller")
  /\ stopObserved("caller")
  /\ lastLog' = IF stopReturnsNull
                THEN "Recording is not in progress or recording object is null."
                ELSE "Stopping recording..."
  /\ UNCHANGED <<appVars, recording, recordingFile, ledActive, durationTimers,
                 pollIntervals, pipeVars, playVars, capturedAudio>>

(* ---------------------------- PunjabiPiApp ----------------------------- *)
sessionReplies == SelectSeq(playing, LAMBDA p : p = "session")
detachedPlaybacks == SelectSeq(playing, LAMBDA p : p = "detached")

\* room for one more capture within the bounds
CaptureRoom ==
  /\ durationTimers.own + durationTimers.stale + BagCardinality(stopCalls)
       < MaxTimers
  /\ Len(announcements) + Len(detachedPlaybacks) <= MaxBackground

\* room for one more announcement outside a session within the bounds
AnnouncementRoom ==
  Len(announcements) + Len(detachedPlaybacks) < MaxAnnouncements

\* handleRecordButtonPressed without the isInteracting test of main.js:66
handleRecordButtonPressedUnguarded ==
  IF isRecording
  THEN /\ stopRecording("manual")
       /\ stopObserved("manual")
       /\ lastLog' = "Stopping current recording via button press."
       /\ UNCHANGED <<appVars, recording, recordingFile, ledActive, durationTimers,
                      pollIntervals, pipeVars, playVars, capturedAudio>>
  ELSE /\ CaptureRoom
       /\ isInteracting' = TRUE
       /\ ledActive' = TRUE
       /\ startRecording
       /\ pollIntervals' = pollIntervals + 1
       /\ lastLog' = "Record button pressed. Starting interaction."
       /\ UNCHANGED <<currentModel, currentPunjabiVoiceIndex,
                      currentPunjabiVoice, conversationHistory, pipeVars,
                      playVars>>

\* PunjabiPiApp.handleRecordButtonPressed (main.js:65-108), up to its first
\* suspension.
handleRecordButtonPressed ==
  IF isInteracting
  THEN /\ lastLog' = "Interaction already in progress. Button press ignored."
       /\ UNCHANGED <<appVars, audioVars, ledActive, timerVars, pipeVars,
                      playVars, obsVars>>
  ELSE IF isRecording
  THEN \* main.js:70-72: stop the running capture and wait for its audio
       /\ stopRecording("manual")
       /\ stopObserved("manual")
       /\ lastLog' = "Stopping current recording via button press."
       /\ UNCHANGED <<appVars, recording, recordingFile, ledActive, durationTimers,
                      pollIntervals, pipeVars, playVars, capturedAudio>>
  ELSE \* main.js:80-107
       /\ CaptureRoom
       /\ isInteracting' = TRUE
       /\ ledActive' = TRUE
       /\ startRecording
       /\ pollIntervals' = pollIntervals + 1
       /\ lastLog' = "Record button pressed. Starting interaction."
       /\ UNCHANGED <<currentModel, currentPunjabiVoiceIndex,
                      currentPunjabiVoice, conversationHistory, pipeVars,
                      playVars>>

\* the recorder stream's "error" handler (audio_handler.js:102-109); the
\* handler is registered without onStopCallback
recorderError ==
  /\ recorderRunning
  /\ recorderRunning' = FALSE
  /\ isRecording' = FALSE
  /\ endedBy' = "error"
  /\ lastLog' = "Recorder error"
  /\ UNCHANGED <<appVars, recording, recordingFile, ledActive, timerVars, pipeVars, playVars,
                 teardowns, capturedAudio>>

\* endOnSilence (audio_handler.js:92-94): the recorder process ends by itself
\* after the configured silence; no handler of the program runs
recorderSilence ==
  /\ recorderRunning
  /\ recorderRunning' = FALSE
  /\ UNCHANGED <<appVars, isRecording, recording, recordingFile, ledActive, timerVars,
                 pipeVars, playVars, lastLog, obsVars>>

\* the duration timer's callback without its stopRecording call
\* (audio_handler.js:116)
durationTimeoutOnlyLogs(own) ==
  /\ IF own
     THEN /\ durationTimers.own > 0
          /\ durationTimers' = [durationTimers EXCEPT !.own = @ - 1]
     ELSE /\ durationTimers.stale > 0
          /\ durationTimers' = [durationTimers EXCEPT !.stale = @ - 1]
  /\ IF isRecording
     THEN lastLog' = "Recording duration limit reached."
     ELSE UNCHANGED lastLog
  /\ UNCHANGED <<appVars, audioVars, ledActive, pollIntervals, stopCalls,
                 pipeVars, playVars, obsVars>>

\* a duration timer fires (audio_handler.js:113-118): the one the latest
\* capture armed (own) or one an earlier capture armed
durationTimeout(own) ==
  /\ IF own
     THEN /\ durationTimers.own > 0
          /\ durationTimers' = [durationTimers EXCEPT !.own = @ - 1]
     ELSE /\ durationTimers.stale > 0
          /\ durationTimers' = [durationTimers EXCEPT !.stale = @ - 1]
  /\ IF isRecording
     THEN /\ stopRecording("timer")
          /\ stopObserved(IF own THEN "timer" ELSE "stale timer")
          /\ lastLog' = "Recording duration limit reached."
     ELSE UNCHANGED <<isRecording, recorderRunning, stopCalls, teardowns,
                      endedBy, lastLog>>
  /\ UNCHANGED <<appVars, recording, recordingFile, ledActive, pollIntervals, pipeVars,
                 playVars, capturedAudio>>

\* checkRecordingInterval without setActiveLed(false) (main.js:97)
checkRecordingIntervalLeavesLed ==
  /\ pollIntervals > 0
  /\ ~isRecording
  /\ pollIntervals' = pollIntervals - 1
  /\ UNCHANGED ledActive
  /\ stopRecording("poll")
  /\ IF stopReturnsNull
     THEN /\ isInteracting' = FALSE
          /\ sessionObservedOver
          /\ lastLog' = "No audio data received after recording stopped."
     ELSE /\ UNCHANGED <<isInteracting, capturedAudio>>
          /\ stopObserved("poll")
          /\ lastLog' = "Recording stopped (likely by silence/duration)."
  /\ UNCHANGED <<currentModel, currentPunjabiVoiceIndex, currentPunjabiVoice,
                 conversationHistory, recording, recordingFile, durationTimers,
                 pipeVars, playVars>>

\* checkRecordingInterval without "this.isInteracting = false" (main.js:104)
checkRecordingIntervalKeepsFlag ==
  /\ pollIntervals > 0
  /\ ~isRecording
  /\ pollIntervals' = pollIntervals - 1
  /\ ledActive' = FALSE
  /\ stopRecording("poll")
  /\ IF stopReturnsNull
     THEN /\ UNCHANGED isInteracting
          /\ sessionObservedOver
          /\ lastLog' = "No audio data received after recording stopped."
     ELSE /\ UNCHANGED <<isInteracting, capturedAudio>>
          /\ stopObserved("poll")
          /\ lastLog' = "Recording stopped (likely by silence/duration)."
  /\ UNCHANGED <<currentModel, currentPunjabiVoiceIndex, currentPunjabiVoice,
                 conversationHistory, recording, recordingFile, durationTimers, pipeVars,
                 playVars>>

\* one tick of checkRecordingInterval that finds the capture ended
\* (main.js:94-107); a tick during the capture does nothing
checkRecordingInterval ==
  /\ pollIntervals > 0
  /\ ~isRecording
  /\ pollIntervals' = pollIntervals - 1
  /\ ledActive' = FALSE
  /\ stopRecording("poll")
  /\ IF stopReturnsNull
     THEN /\ isInteracting' = FALSE
          /\ sessionObservedOver
          /\ lastLog' = "No audio data received after recording stopped."
     ELSE /\ UNCHANGED <<isInteracting, capturedAudio>>
          /\ stopObserved("poll")
          /\ lastLog' = "Recording stopped (likely by silence/duration)."
  /\ UNCHANGED <<currentModel, currentPunjabiVoiceIndex, currentPunjabiVoice,
                 conversationHistory, recording, recordingFile, durationTimers, pipeVars,
                 playVars>>

\* the number of the next transcript of this history: transcripts are
\* numbered in the order they enter the history
nextTranscript ==
  LET ids == {conversationHistory[i].content[2] :
                i \in 1..Len(conversationHistory)}
  IN IF ids = {} THEN 1 ELSE 1 + CHOOSE n \in ids : \A m \in ids : m <= n

\* processAudio up to its first await, the speechToText call (main.js:110-116)
processAudio ==
  /\ pc' = "stt"
  /\ stages' = NoStages
  /\ UNCHANGED <<transcript, utterance, utteranceVoice, llmHistory>>

\* stopRecordingSettles with the unlink of audio_handler.js:155-157 in place
stopRecordingSettlesUnlinks(call, r) ==
  /\ BagIn(call, stopCalls)
  /\ stopCalls' = stopCalls (-) SetToBag({call})
  /\ capturedAudio' = IF call.own /\ (pollIntervals > 0 \/ call.caller # "timer")
                       THEN r ELSE capturedAudio
  /\ recordingFile' = IF r = "audio" THEN FALSE ELSE recordingFile
  /\ IF call.caller \in {"timer", "caller"}
     THEN /\ lastLog' = "Recorded audio data retrieved"
          /\ UNCHANGED <<ledActive, pipeVars>>
     ELSE IF r = "error"
     THEN /\ lastLog' = "Error reading recorded audio file"
          /\ UNCHANGED <<ledActive, pipeVars>>
     ELSE /\ pc = "none"
          /\ ledActive' = FALSE
          /\ processAudio
          /\ lastLog' = "Processing recorded audio..."
  /\ UNCHANGED <<appVars, isRecording, recording, recorderRunning,
                 durationTimers, pollIntervals, playVars, teardowns, endedBy>>

\* a stopRecording promise settles: the 200 ms delay has passed and the file
\* read has called back (audio_handler.js:146-160); the caller resumes
stopRecordingSettles(call, r) ==
  /\ BagIn(call, stopCalls)
  /\ stopCalls' = stopCalls (-) SetToBag({call})
  /\ capturedAudio' = IF call.own /\ (pollIntervals > 0 \/ call.caller # "timer")
                       THEN r ELSE capturedAudio
  /\ IF call.caller \in {"timer", "caller"}
     THEN \* audio_handler.js:116: the promise is dropped; a caller outside
          \* the controller does nothing more with it either
          /\ lastLog' = "Recorded audio data retrieved"
          /\ UNCHANGED <<ledActive, pipeVars>>
     ELSE IF r = "error"
     THEN \* the await throws inside the handler: the handler ends there
          /\ lastLog' = "Error reading recorded audio file"
          /\ UNCHANGED <<ledActive, pipeVars>>
     ELSE \* main.js:73-75 and main.js:100-101
          /\ pc = "none"
          /\ ledActive' = FALSE
          /\ processAudio
          /\ lastLog' = "Processing recorded audio..."
  /\ UNCHANGED <<appVars, audioVars, durationTimers, pollIntervals, playVars,
                 teardowns, endedBy>>

\* handleSwitchModelButtonPressed without the reset of the history
\* (main.js:187)
handleSwitchModelButtonPressedKeepsHistory ==
  IF isInteracting
  THEN /\ lastLog' = "Cannot switch model during an interaction."
       /\ UNCHANGED <<appVars, audioVars, ledActive, timerVars, pipeVars,
                      playVars, obsVars>>
  ELSE LET currentIndex == indexOf(availableModels, currentModel)
           nextIndex == (currentIndex + 1) % Len(availableModels)
       IN /\ AnnouncementRoom
          /\ currentModel' = at(availableModels, nextIndex)
          /\ announcements' = Append(announcements,
               [text |-> SwitchedModel, voice |-> ENGLISH_VOICE_NAME])
          /\ lastLog' = "Switched AI Model"
          /\ UNCHANGED <<isInteracting, currentPunjabiVoiceIndex,
                         currentPunjabiVoice, conversationHistory, audioVars,
                         ledActive, timerVars, pipeVars, playing, playbackFile,
                         obsVars>>

\* handleSwitchModelButtonPressed stopping at the last model instead of
\* wrapping (main.js:185 without the modulo)
handleSwitchModelButtonPressedNoWrap ==
  IF isInteracting
  THEN /\ lastLog' = "Cannot switch model during an interaction."
       /\ UNCHANGED <<appVars, audioVars, ledActive, timerVars, pipeVars,
                      playVars, obsVars>>
  ELSE LET currentIndex == indexOf(availableModels, currentModel)
           nextIndex == IF currentIndex + 1 < Len(availableModels)
                        THEN currentIndex + 1 ELSE currentIndex
       IN /\ AnnouncementRoom
          /\ currentModel' = at(availableModels, nextIndex)
          /\ conversationHistory' = <<>>
          /\ announcements' = Append(announcements,
               [text |-> SwitchedModel, voice |-> ENGLISH_VOICE_NAME])
          /\ lastLog' = "Switched AI Model"
          /\ UNCHANGED <<isInteracting, currentPunjabiVoiceIndex,
                         currentPunjabiVoice, audioVars, ledActive, timerVars,
                         pipeVars, playing, playbackFile, obsVars>>

\* handleSwitchModelButtonPressed without the isInteracting test of
\* main.js:179
handleSwitchModelButtonPressedUnguarded ==
  LET currentIndex == indexOf(availableModels, currentModel)
      nextIndex == (currentIndex + 1) % Len(availableModels)
  IN /\ AnnouncementRoom
     /\ currentModel' = at(availableModels, nextIndex)
     /\ conversationHistory' = <<>>
     /\ announcements' = Append(announcements,
          [text |-> SwitchedModel, voice |-> ENGLISH_VOICE_NAME])
     /\ lastLog' = "Switched AI Model"
     /\ UNCHANGED <<isInteracting, currentPunjabiVoiceIndex,
                    currentPunjabiVoice, audioVars, ledActive, timerVars,
                    pipeVars, playing, playbackFile, obsVars>>

\* PunjabiPiApp.handleSwitchModelButtonPressed (main.js:178-194)
handleSwitchModelButtonPressed ==
  IF isInteracting
  THEN /\ lastLog' = "Cannot switch model during an interaction."
       /\ UNCHANGED <<appVars, audioVars, ledActive, timerVars, pipeVars,
                      playVars, obsVars>>
  ELSE LET currentIndex == indexOf(availableModels, currentModel)
           nextIndex == (currentIndex + 1) % Len(availableModels)
       IN /\ AnnouncementRoom
          /\ currentModel' = at(availableModels, nextIndex)
          /\ conversationHistory' = <<>>
          /\ announcements' = Append(announcements,
               [text |-> SwitchedModel, voice |-> ENGLISH_VOICE_NAME])
          /\ lastLog' = "Switched AI Model"
          /\ UNCHANGED <<isInteracting, currentPunjabiVoiceIndex,
                         currentPunjabiVoice, audioVars, ledActive, timerVars,
                         pipeVars, playing, playbackFile, obsVars>>

\* handleSwitchVoiceButtonPressed resetting the history as the model switch
\* does (main.js:187 copied into the voice handler)
handleSwitchVoiceButtonPressedClearsHistory ==
  IF isInteracting
  THEN /\ lastLog' = "Cannot switch voice during an interaction."
       /\ UNCHANGED <<appVars, audioVars, ledActive, timerVars, pipeVars,
                      playVars, obsVars>>
  ELSE LET nextIndex == (currentPunjabiVoiceIndex + 1) % Len(PUNJABI_VOICE_NAMES)
       IN /\ AnnouncementRoom
          /\ currentPunjabiVoiceIndex' = nextIndex
          /\ currentPunjabiVoice' = at(PUNJABI_VOICE_NAMES, nextIndex)
          /\ conversationHistory' = <<>>
          /\ announcements' = Append(announcements,
               [text |-> SwitchedVoice, voice |-> ENGLISH_VOICE_NAME])
          /\ lastLog' = "Switched Punjabi Voice"
          /\ UNCHANGED <<isInteracting, currentModel, audioVars, ledActive,
                         timerVars, pipeVars, playing, playbackFile, obsVars>>

\* PunjabiPiApp.handleSwitchVoiceButtonPressed (main.js:196-212)
handleSwitchVoiceButtonPressed ==
  IF isInteracting
  THEN /\ lastLog' = "Cannot switch voice during an interaction."
       /\ UNCHANGED <<appVars, audioVars, ledActive, timerVars, pipeVars,
                      playVars, obsVars>>
  ELSE LET nextIndex == (currentPunjabiVoiceIndex + 1) % Len(PUNJABI_VOICE_NAMES)
       IN /\ AnnouncementRoom
          /\ currentPunjabiVoiceIndex' = nextIndex
          /\ currentPunjabiVoice' = at(PUNJABI_VOICE_NAMES, nextIndex)
          /\ announcements' = Append(announcements,
               [text |-> SwitchedVoice, voice |-> ENGLISH_VOICE_NAME])
          /\ lastLog' = "Switched Punjabi Voice"
          /\ UNCHANGED <<isInteracting, currentModel, conversationHistory,
                         audioVars, ledActive, timerVars, pipeVars, playing, playbackFile,
                         obsVars>>

\* AudioHandler.playAudioMp3 (audio_handler.js:54-73): playback starts and
\* the call returns at once
playAudioMp3(by) ==
  /\ playbackFile' = TRUE
  /\ playing' = Append(playing, by)

\* the textToSpeech call of an announceMessage made outside a session returns
\* (main.js:49-62): audio is handed to playback, a failure is only logged
announceMessageResumes(i, r) ==
  /\ i \in 1..Len(announcements)
  /\ announcements' = without(announcements, i)
  /\ IF r = "audio"
     THEN /\ playAudioMp3("detached")
          /\ UNCHANGED lastLog
     ELSE /\ lastLog' = "Failed to generate announcement audio."
          /\ UNCHANGED <<playing, playbackFile>>
  /\ UNCHANGED <<appVars, audioVars, ledActive, timerVars, pipeVars, obsVars>>

\* player.play calls back: a playback has finished (audio_handler.js:62-72)
playbackFinished(i) ==
  /\ i \in 1..Len(playing)
  /\ playing' = without(playing, i)
  \* audio_handler.js:67-71: unlink of the one playback file, which fails
  \* when the file is gone already
  /\ playbackFile' = FALSE
  /\ IF playbackFile
     THEN UNCHANGED lastLog
     ELSE lastLog' = "Error deleting temporary MP3 file"
  /\ UNCHANGED <<appVars, audioVars, ledActive, timerVars, pipeVars,
                 announcements, obsVars>>

(* ------------------------- the response pipeline ------------------------ *)
\* Array.prototype.push
push(history, role, content) ==
  Append(history, [role |-> role, content |-> content])

\* announceMessage up to its await of textToSpeech (main.js:36-54): the voice
\* is chosen before the call is made
announceMessage(text, english) ==
  /\ utterance' = text
  /\ utteranceVoice' = IF english THEN ENGLISH_VOICE_NAME ELSE currentPunjabiVoice
  /\ pc' = "tts"

\* speechToTextReturns answering an empty transcript as it answers a failed
\* transcription (main.js:147-153 taken as main.js:154-161)
speechToTextReturnsEmptyAsFailure(r) ==
  /\ pc = "stt"
  /\ stages' = [stages EXCEPT !.stt = r]
  /\ IF r = "text"
     THEN /\ transcript' = nextTranscript
          /\ conversationHistory' =
               push(conversationHistory, "user", Transcript(transcript'))
          /\ llmHistory' = conversationHistory'
          /\ pc' = "llm"
          /\ lastLog' = "User said"
          /\ UNCHANGED <<utterance, utteranceVoice>>
     ELSE /\ announceMessage(SorryUnderstand, TRUE)
          /\ lastLog' = "Failed to get transcript from STT."
          /\ UNCHANGED <<conversationHistory, llmHistory, transcript>>
  /\ UNCHANGED <<isInteracting, currentModel, currentPunjabiVoiceIndex,
                 currentPunjabiVoice, audioVars, ledActive, timerVars,
                 playVars, obsVars>>

\* speechToText returns (ai_services.js:37-93): a transcript, "" when there
\* are no results, null on an error; processAudio resumes (main.js:113-162)
speechToTextReturns(r) ==
  /\ pc = "stt"
  /\ stages' = [stages EXCEPT !.stt = r]
  /\ IF r = "text"
     THEN /\ transcript' = nextTranscript
          /\ conversationHistory' =
               push(conversationHistory, "user", Transcript(transcript'))
          /\ llmHistory' = conversationHistory'
          /\ pc' = "llm"
          /\ lastLog' = "User said"
          /\ UNCHANGED <<utterance, utteranceVoice>>
     ELSE IF r = "empty"
     THEN /\ announceMessage(DidNotCatch, TRUE)
          /\ lastLog' = "No speech detected or STT returned empty."
          /\ UNCHANGED <<conversationHistory, llmHistory, transcript>>
     ELSE /\ announceMessage(SorryUnderstand, TRUE)
          /\ lastLog' = "Failed to get transcript from STT."
          /\ UNCHANGED <<conversationHistory, llmHistory, transcript>>
  /\ UNCHANGED <<isInteracting, currentModel, currentPunjabiVoiceIndex,
                 currentPunjabiVoice, audioVars, ledActive, timerVars,
                 playVars, obsVars>>

\* ai_services.js:135-136
SystemMessage == <<"You are a helpful assistant who responds in Punjabi.", 0>>

\* the message list getAiResponse builds from its arguments
\* (ai_services.js:137-141)
messages(prompt, conversation_history) ==
  <<[role |-> "system", content |-> SystemMessage]>>
    \o conversation_history
    \o <<[role |-> "user", content |-> prompt]>>

\* the message list of the inference call in flight (main.js:121-125)
sentMessages == messages(Transcript(transcript), llmHistory)

\* what getAiResponse resolves to (ai_services.js:147-219): the model's reply,
\* an empty string when the reply trims to nothing, and, when the request
\* throws, the text "Error communicating with ... API."
aiResponseText(r, n) ==
  IF r = "reply" THEN Reply(n)
  ELSE IF r = "error" THEN ApiErrorText(n)
  ELSE NoUtterance

\* main.js:128-136: the reply is pushed and the history cut to its cap
pushReply(history, text) ==
  LET pushed == push(history, "assistant", text)
  IN IF Len(pushed) > HistoryCap THEN sliceLast(pushed, HistoryCap) ELSE pushed

\* getAiResponse returns; processAudio resumes (main.js:126-146)
getAiResponseReturns(r) ==
  /\ pc = "llm"
  /\ stages' = [stages EXCEPT !.llm = r]
  /\ LET text == aiResponseText(r, transcript)
     IN IF text # NoUtterance
        THEN /\ conversationHistory' = pushReply(conversationHistory, text)
             /\ announceMessage(text, FALSE)
             /\ lastLog' = "AI responded"
        ELSE /\ announceMessage(SorryProcess, TRUE)
             /\ lastLog' = "Failed to get AI response."
             /\ UNCHANGED conversationHistory
  /\ llmHistory' = <<>>
  /\ UNCHANGED <<isInteracting, currentModel, currentPunjabiVoiceIndex,
                 currentPunjabiVoice, audioVars, ledActive, timerVars,
                 transcript, playVars, obsVars>>

\* the textToSpeech call of the session's announceMessage returns; the audio
\* is handed to playback or the failure logged (main.js:55-59), and
\* processAudio runs to its end through finally (main.js:171-175)
textToSpeechReturns(r) ==
  /\ pc = "tts"
  /\ IF r = "audio"
     THEN playAudioMp3("session")
     ELSE UNCHANGED <<playing, playbackFile>>
  /\ isInteracting' = FALSE
  /\ ledActive' = FALSE
  /\ pc' = "none"
  /\ transcript' = 0
  /\ stages' = NoStages
  /\ utterance' = NoUtterance
  /\ utteranceVoice' = ""
  /\ lastLog' = "Interaction finished."
  /\ sessionObservedOver
  /\ UNCHANGED <<currentModel, currentPunjabiVoiceIndex, currentPunjabiVoice,
                 conversationHistory, audioVars, timerVars, llmHistory,
                 announcements>>

\* the poll's call of processAudio without clearInterval (main.js:96)
pollReceivesAudioKeepsInterval ==
  /\ pollIntervals > 0
  /\ ~isRecording
  /\ capturedAudio = "audio"
  /\ pc = "none"
  /\ Len(sessionReplies) < MaxReplies
  /\ nextTranscript <= MaxExchanges
  /\ UNCHANGED pollIntervals
  /\ ledActive' = FALSE
  /\ processAudio
  /\ lastLog' = "Processing recorded audio..."
  /\ UNCHANGED <<appVars, audioVars, durationTimers, stopCalls, playVars,
                 obsVars>>

\* The call of processAudio in the completion poll (main.js:100-101), taken
\* when the poll's stopRecording call yields the captured audio.  With the
\* controller's own AudioHandler that call yields null (see stopRecording),
\* so Spec never gets here.  SpecPipeline drives the controller with an
\* audio handler whose stopRecording hands the poll the buffer that was
\* already read for the capture's first stop, which is what this call site
\* is written for.
pollReceivesAudio ==
  /\ pollIntervals > 0
  /\ ~isRecording
  /\ capturedAudio = "audio"
  /\ pc = "none"
  /\ Len(sessionReplies) < MaxReplies
  /\ nextTranscript <= MaxExchanges
  /\ pollIntervals' = pollIntervals - 1
  /\ ledActive' = FALSE
  /\ processAudio
  /\ lastLog' = "Processing recorded audio..."
  /\ UNCHANGED <<appVars, audioVars, durationTimers, stopCalls, playVars,
                 obsVars>>

(* ------------------------------ shutdown ------------------------------- *)
\* the state the controller is in, as an observer of the device names it
controllerState ==
  IF pc # "none" THEN "Processing"
  ELSE IF isInteracting THEN "Recording"
  ELSE IF playing # <<>> THEN "Playing"
  ELSE "Idle"

\* GpioHandler.cleanup (gpio_handler.js:124-138), in the order of its writes
gpioCleanupSteps ==
  <<"ledStatus.writeSync(0)", "ledActive.writeSync(0)", "buttons unexport",
    "leds unexport">>

\* AudioHandler.cleanup (audio_handler.js:164-176): the recording file is
\* deleted if it exists; the playback file is not looked at
audioCleanupSteps ==
  IF recordingFile THEN <<"unlink recording file">> ELSE <<>>

\* SIGINT or SIGTERM (main.js:228-229) runs PunjabiPiApp.cleanup
\* (main.js:214-221).  The last call, setStatusLed(false), is a second
\* ledStatus.writeSync(0), to a line GpioHandler.cleanup has released already.  process.exit(0) ends the
\* process: its timers, pending calls and fields are gone with it.
cleanup ==
  /\ running
  /\ exitedFrom' = controllerState
  /\ cleanupSteps' =
       gpioCleanupSteps \o audioCleanupSteps \o <<"ledStatus.writeSync(0)">>
  /\ ledStatus' = FALSE
  /\ ledActive' = FALSE
  /\ gpioExported' = FALSE
  /\ recordingFile' = FALSE
  /\ UNCHANGED playbackFile
  /\ running' = FALSE
  \* a call a mock object does not support throws and is reported by the
  \* try/catch around it (gpio_handler.js:110-112, 135-137)
  /\ gpioErrors' =
       IF gpioMock /\ \E i \in 1..Len(laterGpioCalls) :
                        ~mockSupports(laterGpioCalls[i])
       THEN gpioErrors + 1 ELSE gpioErrors
  /\ UNCHANGED <<gpioMock, buttonsWatched>>
  /\ lastLog' = "Cleanup complete. Exiting."
  /\ isInteracting' = FALSE
  /\ conversationHistory' = <<>>
  /\ isRecording' = FALSE
  /\ recording' = NoRecording
  /\ recorderRunning' = FALSE
  /\ durationTimers' = [own |-> 0, stale |-> 0]
  /\ pollIntervals' = 0
  /\ stopCalls' = EmptyBag
  /\ pc' = "none"
  /\ transcript' = 0
  /\ stages' = NoStages
  /\ utterance' = NoUtterance
  /\ utteranceVoice' = ""
  /\ llmHistory' = <<>>
  /\ announcements' = <<>>
  /\ playing' = <<>>
  /\ sessionObservedOver
  /\ UNCHANGED <<currentModel, currentPunjabiVoiceIndex, currentPunjabiVoice>>
  /\ UNCHANGED gatewayVars

\* a callback of the running process
alive(callback) ==
  /\ running
  /\ callback
  /\ UNCHANGED sysVars
  /\ UNCHANGED gatewayVars

\* a watch callback of a button (gpio_handler.js:42-82): it runs when the
\* watch was registered on a real line
watched(callback) ==
  /\ buttonsWatched
  /\ alive(callback)

(* ---------------------- SpeechTranslatorGateway ------------------------ *)
\* handleConnection (speech-translator.gateway.ts:658-669): the language was
\* set to 'en-US' two lines before it is compared with 'pa-IN'.
handleConnection(c) ==
  /\ sockets[c] = "new"
  /\ sockets' = [sockets EXCEPT ![c] = "connected"]
  /\ clientLanguages' = MapSet(clientLanguages, c, "en-US")
  /\ clientData' = [clientData EXCEPT ![c].apiProvider = "openrouter",
                                      ![c].useRag = TRUE]
  /\ LET ref == <<"connection", c>>
     IN /\ arrays' = MapSet(arrays, ref,
                            IF MapGet(clientLanguages', c) = "pa-IN"
                            THEN <<systemPrompt>> ELSE <<>>)
        /\ clientConversations' = MapSet(clientConversations, c, ref)
  /\ UNCHANGED <<apiProvider, useRag, requests, selectedProvider>>

\* handleDisconnect (speech-translator.gateway.ts:671-675)
handleDisconnect(c) ==
  /\ sockets[c] = "connected"
  /\ sockets' = [sockets EXCEPT ![c] = "disconnected"]
  /\ clientLanguages' = MapDelete(clientLanguages, c)
  /\ clientConversations' = MapDelete(clientConversations, c)
  /\ UNCHANGED <<clientData, arrays, apiProvider, useRag, requests,
                 selectedProvider>>

\* handleSetLanguage (speech-translator.gateway.ts:677-688): an unsupported
\* language is answered with an error and changes nothing.
handleSetLanguage(c, language) ==
  /\ sockets[c] = "connected"
  /\ IF language \notin SUPPORTED_LANGUAGES
     THEN UNCHANGED <<clientLanguages, clientData>>
     ELSE /\ clientLanguages' = MapSet(clientLanguages, c, language)
          /\ clientData' = [clientData EXCEPT ![c].languageCode = language]
  /\ UNCHANGED <<sockets, clientConversations, arrays, apiProvider, useRag,
                 requests, selectedProvider>>

\* SpeechTranslatorService.setApiProvider (speech-translator.service.ts:66-69)
setApiProvider(provider) == apiProvider' = provider

\* SpeechTranslatorService.setUseRag (speech-translator.service.ts:71-74)
setUseRag(rag) == useRag' = rag

\* handleSetApiProvider (speech-translator.gateway.ts:690-698)
handleSetApiProvider(c, provider) ==
  /\ sockets[c] = "connected"
  /\ clientData' = [clientData EXCEPT ![c].apiProvider = provider]
  /\ setApiProvider(provider)
  /\ selectedProvider' = [selectedProvider EXCEPT ![c] = provider]
  /\ UNCHANGED <<sockets, clientLanguages, clientConversations, arrays,
                 useRag, requests>>

\* handleToggleRag (speech-translator.gateway.ts:700-708)
handleToggleRag(c, rag) ==
  /\ sockets[c] = "connected"
  /\ clientData' = [clientData EXCEPT ![c].useRag = rag]
  /\ setUseRag(rag)
  /\ UNCHANGED <<sockets, clientLanguages, clientConversations, arrays,
                 apiProvider, requests, selectedProvider>>

\* A request of client c as handleSpeechToText leaves it at its first await.
request(c) ==
  [client |-> c, pc |-> "transcribeSpeech", conversationHistory |-> "none",
   provider |-> "none", selected |-> "none", emitted |-> "none"]

\* the catch block of handleSpeechToText (speech-translator.gateway.ts:
\* 796-803)
failed(req) == [req EXCEPT !.pc = "done", !.emitted = "error"]

\* handleSpeechToText up to its first await (speech-translator.gateway.ts:
\* 710-739)
handleSpeechToText(c, payload) ==
  /\ sockets[c] = "connected"
  /\ Len(requests) < MaxRequests
  /\ IF payload.apiProvider # "undefined"
     THEN /\ setApiProvider(payload.apiProvider)
          /\ selectedProvider' =
               [selectedProvider EXCEPT ![c] = payload.apiProvider]
     ELSE UNCHANGED <<apiProvider, selectedProvider>>
  /\ IF payload.useRag # "undefined"
     THEN setUseRag(payload.useRag = "true")
     ELSE UNCHANGED useRag
  /\ clientData' =
       [clientData EXCEPT
          ![c].apiProvider = IF payload.apiProvider # "undefined"
                             THEN payload.apiProvider ELSE @,
          ![c].useRag = IF payload.useRag # "undefined"
                        THEN payload.useRag = "true" ELSE @]
  /\ requests' = Append(requests,
                        IF payload.language \notin SUPPORTED_LANGUAGES
                        THEN failed(request(c)) ELSE request(c))
  /\ UNCHANGED <<sockets, clientLanguages, clientConversations, arrays>>

\* generateAIResponse from the construction of its messages to the await of
\* the provider it switches to (speech-translator.service.ts:126-191): the
\* provider is the service's apiProvider at this moment.
switchApiProvider(req) ==
  [req EXCEPT !.pc = "generateResponse",
              !.provider = apiProvider,
              !.selected = selectedProvider[req.client]]

\* generateAIResponse up to its first await (speech-translator.service.ts:
\* 102-113): isGurbaniQuery returns true for every prompt (235-237).
generateAIResponse(req) ==
  IF useRag THEN [req EXCEPT !.pc = "searchGurbani"]
  ELSE switchApiProvider(req)

\* transcribeSpeech settles (speech-translator.gateway.ts:736-750): the
\* handler takes the client's conversation, or a new array when the map has
\* none, and calls generateAIResponse.
recognizeReturns(r, result) ==
  /\ r \in 1..Len(requests)
  /\ requests[r].pc = "transcribeSpeech"
  /\ IF result = "throws"
     THEN /\ requests' = [requests EXCEPT ![r] = failed(@)]
          /\ UNCHANGED arrays
     ELSE LET c == requests[r].client
              sysPrompt == IF MapGet(clientLanguages, c) = "pa-IN"
                           THEN <<systemPrompt>> ELSE <<>>
              found == MapHas(clientConversations, c)
              ref == IF found THEN clientConversations[c]
                     ELSE <<"request", r>>
          IN /\ arrays' = IF found THEN arrays
                          ELSE MapSet(arrays, ref, sysPrompt)
             /\ requests' =
                  [requests EXCEPT
                     ![r] = generateAIResponse(
                              [@ EXCEPT !.conversationHistory = ref])]
  /\ UNCHANGED <<sockets, clientData, clientLanguages, clientConversations,
                 apiProvider, useRag, selectedProvider>>

\* ragService.searchGurbani settles (speech-translator.service.ts:113-124):
\* a failure is logged and the response is generated without context.
searchGurbaniReturns(r, result) ==
  /\ r \in 1..Len(requests)
  /\ requests[r].pc = "searchGurbani"
  /\ requests' = [requests EXCEPT ![r] = switchApiProvider(@)]
  /\ UNCHANGED <<sockets, clientData, clientLanguages, clientConversations,
                 arrays, apiProvider, useRag, selectedProvider>>

\* the provider settles (speech-translator.service.ts:166-232,
\* speech-translator.gateway.ts:750-777): the exchange is pushed onto the
\* request's array and the array is set as the client's conversation.
generateResponseReturns(r, result) ==
  /\ r \in 1..Len(requests)
  /\ requests[r].pc = "generateResponse"
  /\ IF result = "throws"
     THEN /\ requests' = [requests EXCEPT ![r] = failed(@)]
          /\ UNCHANGED <<arrays, clientConversations>>
     ELSE LET c == requests[r].client
              ref == requests[r].conversationHistory
          IN /\ arrays' = [arrays EXCEPT
                             ![ref] = @ \o <<userMessage(r),
                                             assistantMessage(r)>>]
             /\ clientConversations' = MapSet(clientConversations, c, ref)
             /\ requests' = [requests EXCEPT ![r].pc = "textToSpeech"]
  /\ UNCHANGED <<sockets, clientData, clientLanguages, apiProvider, useRag,
                 selectedProvider>>

\* textToSpeech settles (speech-translator.gateway.ts:771-803)
synthesizeSpeechReturns(r, result) ==
  /\ r \in 1..Len(requests)
  /\ requests[r].pc = "textToSpeech"
  /\ requests' =
       [requests EXCEPT
          ![r] = IF result = "throws" THEN failed(@)
                 ELSE [@ EXCEPT !.pc = "done", !.emitted = "text-to-speech"]]
  /\ UNCHANGED <<sockets, clientData, clientLanguages, clientConversations,
                 arrays, apiProvider, useRag, selectedProvider>>

\* a handler of the gateway process
gateway(handler) ==
  /\ handler
  /\ UNCHANGED deviceVars

(* --------------------------- specifications ---------------------------- *)
StopCalls == [caller : {"timer", "manual", "poll", "caller"}, own : BOOLEAN]
StopResults == {"audio", "error"}
SttResults == {"text", "empty", "null"}
LlmResults == {"reply", "empty", "error"}
TtsResults == {"audio", "null"}

\* the controller as it runs on the device
Next ==
  \/ watched(handleRecordButtonPressed)
  \/ watched(handleSwitchModelButtonPressed)
  \/ watched(handleSwitchVoiceButtonPressed)
  \/ alive(recorderError)
  \/ alive(recorderSilence)
  \/ \E own \in BOOLEAN : alive(durationTimeout(own))
  \/ alive(checkRecordingInterval)
  \/ \E call \in StopCalls, r \in StopResults :
       alive(stopRecordingSettles(call, r))
  \/ \E i \in 1..Len(announcements), r \in TtsResults :
       alive(announceMessageResumes(i, r))
  \/ \E i \in 1..Len(playing) : alive(playbackFinished(i))
  \/ cleanup

Spec == Init /\ [][Next]_vars

\* the controller with the captured audio handed to its completion poll
NextPipeline ==
  \/ Next
  \/ alive(pollReceivesAudio)
  \/ \E r \in SttResults : alive(speechToTextReturns(r))
  \/ \E r \in LlmResults : alive(getAiResponseReturns(r))
  \/ \E r \in TtsResults : alive(textToSpeechReturns(r))

SpecPipeline == Init /\ [][NextPipeline]_vars
\* the same with each history followed through MaxLiveExchanges exchanges,
\* every timer firing and every external call returning
NextLive ==
  \/ Next
  \/ (nextTranscript <= MaxLiveExchanges /\ alive(pollReceivesAudio))
  \/ \E r \in SttResults : alive(speechToTextReturns(r))
  \/ \E r \in LlmResults : alive(getAiResponseReturns(r))
  \/ \E r \in TtsResults : alive(textToSpeechReturns(r))

TimersFire ==
  /\ WF_vars(alive(durationTimeout(TRUE)))
  /\ WF_vars(alive(durationTimeout(FALSE)))
  /\ WF_vars(alive(checkRecordingInterval))

CallsReturn ==
  /\ WF_vars(\E call \in StopCalls, r \in StopResults :
               alive(stopRecordingSettles(call, r)))
  /\ WF_vars(\E r \in SttResults : alive(speechToTextReturns(r)))
  /\ WF_vars(\E r \in LlmResults : alive(getAiResponseReturns(r)))
  /\ WF_vars(\E r \in TtsResults : alive(textToSpeechReturns(r)))

SpecLive == Init /\ [][NextLive]_vars /\ TimersFire /\ CallsReturn

\* the controller as it runs on the device, with every timer firing
SpecDevice == Spec /\ TimersFire

\* the controller as it runs on the device, in any environment
SpecEnvironment == InitAnyEnvironment /\ [][Next]_vars

\* AudioHandler driven through its own interface by any caller
NextAudioHandler ==
  \/ alive(callStartRecording)
  \/ alive(callStopRecording)
  \/ alive(recorderError)
  \/ alive(recorderSilence)
  \/ \E own \in BOOLEAN : alive(durationTimeout(own))
  \/ \E call \in StopCalls, r \in StopResults :
       alive(stopRecordingSettles(call, r))

SpecAudioHandler == Init /\ [][NextAudioHandler]_vars

CallResults == {"returns", "throws"}
\* the socket gateway serving its clients
NextGateway ==
  \/ \E c \in Clients : gateway(handleConnection(c))
  \/ \E c \in Clients : gateway(handleDisconnect(c))
  \/ \E c \in Clients, language \in MessageLanguages :
       gateway(handleSetLanguage(c, language))
  \/ \E c \in Clients, provider \in ApiProviders :
       gateway(handleSetApiProvider(c, provider))
  \/ \E c \in Clients, rag \in BOOLEAN : gateway(handleToggleRag(c, rag))
  \/ \E c \in Clients, payload \in SpeechToTextPayloads :
       gateway(handleSpeechToText(c, payload))
  \/ \E r \in 1..MaxRequests, result \in CallResults :
       gateway(recognizeReturns(r, result))
  \/ \E r \in 1..MaxRequests, result \in CallResults :
       gateway(searchGurbaniReturns(r, result))
  \/ \E r \in 1..MaxRequests, result \in CallResults :
       gateway(generateResponseReturns(r, result))
  \/ \E r \in 1..MaxRequests, result \in CallResults :
       gateway(synthesizeSpeechReturns(r, result))

\* the gateway runs on a server: the controller's state stays as it is on a
\* device with working GPIO lines
InitGateway == Init /\ ~gpioMock
SpecGateway == InitGateway /\ [][NextGateway]_vars

(* ------------------------------ properties ----------------------------- *)
\* the sessions that are not Idle: those whose capture waits for its poll,
\* those waiting for the audio of a stop they asked for, the one in processAudio
awaitedStops ==
  BagCardinality(stopCalls) - CopiesIn([caller |-> "timer", own |-> TRUE], stopCalls)
                            - CopiesIn([caller |-> "timer", own |-> FALSE], stopCalls)
openSessions ==
  pollIntervals + awaitedStops + (IF pc # "none" THEN 1 ELSE 0)

\* a record press is accepted in this step (main.js:80 logs it)
pressAccepted ==
  /\ handleRecordButtonPressed
  /\ lastLog' = "Record button pressed. Starting interaction."

\* C1: at most one interaction session is non-Idle in every reachable state,
\* and a record press reaches startRecording only when no capture is
\* recording and no session is still waiting for its capture or processing.
C1_SingleFlight ==
  /\ [](openSessions <= 1)
  /\ [][pressAccepted => (~isRecording /\ openSessions = 0)]_vars

\* a record press has been turned away while a session was in processAudio
C1_PressRejectedWhileProcessing ==
  /\ pc # "none"
  /\ lastLog = "Interaction already in progress. Button press ignored."

\* the controller is not Idle: a session is open, or its reply is still
\* being played
NotIdle == isInteracting \/ sessionReplies # <<>>

\* C2: a record press while the controller is not Idle (a session open, or
\* its reply still being played) changes neither the controller state nor
\* the active indicator, grows no history and starts no capture.
C2_PressWhileNotIdleIsNoOp ==
  [][(handleRecordButtonPressed /\ NotIdle) =>
       UNCHANGED <<isInteracting, ledActive, conversationHistory, isRecording,
                   recording, recorderRunning, pollIntervals, pc>>]_vars

\* a capture is running while the reply of the session before is still played
C2_CaptureDuringReply ==
  isRecording /\ sessionReplies # <<>>

\* C3: a session whose capture was ended by its duration timer goes on to
\* processAudio: it does not become Idle without processAudio having run.
C3_TimeoutReachesProcessing ==
  [][(isInteracting /\ endedBy = "timer" /\ pc = "none") =>
       (isInteracting' \/ pc' # "none")]_vars

\* the poll has closed the session of a capture the duration timer ended,
\* while the audio of that capture is still being read for the timer
C3_TimeoutSessionDropped ==
  /\ ~isInteracting
  /\ pc = "none"
  /\ lastLog = "No audio data received after recording stopped."
  /\ BagIn([caller |-> "timer", own |-> TRUE], stopCalls)

\* C4: stopRecording called for one capture by two triggers performs one
\* teardown, and the later caller (the completion poll) receives what the
\* first caller received, so it is not told that there is no audio.
C4_StopRecordingIdempotent ==
  /\ [](teardowns <= 1)
  /\ [][(checkRecordingInterval /\ teardowns = 1) =>
          lastLog' # "No audio data received after recording stopped."]_vars

\* the duration timer has torn the capture down and its audio has been read,
\* and the poll has not yet made its own stopRecording call
C4_PollAfterTimer ==
  /\ teardowns = 1
  /\ endedBy = "timer"
  /\ capturedAudio = "audio"
  /\ pollIntervals = 1

\* C5: every accepted record press is eventually followed by the controller
\* being Idle with the active indicator off, however the capture ends and
\* whichever stage fails, provided timers fire and external calls return.
C5_SessionEnds ==
  isInteracting ~> (~isInteracting /\ ~ledActive)

\* a session has gone through processAudio and the controller is Idle again
C5_SessionFinished ==
  /\ ~isInteracting
  /\ ~ledActive
  /\ lastLog = "Interaction finished."

\* the entries of the history that belong to the exchange of transcript n
exchangeEntries(n) ==
  {i \in 1..Len(conversationHistory) : conversationHistory[i].content[2] = n}

\* C6: when the inference call fails, the utterance the session speaks is the
\* fixed apology and the history holds no entry of the failed exchange.
C6_InferenceFailureApologises ==
  (pc = "tts" /\ stages.llm = "error") =>
     (utterance = SorryProcess /\ exchangeEntries(transcript) = {})

\* the inference call has failed and the session is about to speak
C6_InferenceFailed ==
  /\ pc = "tts"
  /\ stages.llm = "error"
  /\ utterance = ApiErrorText(transcript)

\* the fixed utterances a failed stage is answered with
Apologies == {SorryProcess, SorryUnderstand, UnexpectedError}

\* a stage of the session has failed when the synthesis of its utterance
\* returns r
stageFailed(r) ==
  \/ stages.stt = "null"
  \/ stages.llm = "error"
  \/ (r = "null" /\ utterance \notin Apologies)

\* C7: when transcription, inference or the synthesis of the reply fails, the
\* session ends with a fixed apology handed to playback.
C7_FailureSpeaksApology ==
  [][\A r \in TtsResults :
       (textToSpeechReturns(r) /\ stageFailed(r)) =>
          (utterance \in Apologies /\ playing' = Append(playing, "session"))]_vars

\* the reply of a session is waiting for its synthesis
C7_ReplyAwaitsSynthesis ==
  /\ pc = "tts"
  /\ stages.llm = "reply"
  /\ utterance = Reply(transcript)
  /\ utteranceVoice = currentPunjabiVoice

\* C8: in every reachable state, the states between the awaits of
\* processAudio included, the history holds at most HistoryCap entries, and
\* so does the history handed to the inference call.
C8_HistoryCapped ==
  /\ Len(conversationHistory) <= HistoryCap
  /\ Len(llmHistory) <= HistoryCap

\* processAudio has pushed a transcript onto a full history
C8_HistoryOverCap ==
  /\ pc = "llm"
  /\ Len(llmHistory) = HistoryCap + 1

\* user/assistant pairs in alternation
Paired(history) ==
  /\ Len(history) % 2 = 0
  /\ \A i \in 1..Len(history) :
       history[i].role = (IF i % 2 = 1 THEN "user" ELSE "assistant")

\* C9: whenever no processAudio call is in progress the history is a
\* sequence of user/assistant pairs, also after trimming and after failed
\* exchanges.
C9_HistoryPaired ==
  pc = "none" => Paired(conversationHistory)

\* a session has ended on the apology for a missing reply
C9_UnansweredTranscript ==
  /\ pc = "none"
  /\ conversationHistory # <<>>
  /\ conversationHistory[Len(conversationHistory)].role = "user"

C11_SwitchClearsHistoryAtomically ==
  /\ [][currentModel' # currentModel => conversationHistory' = <<>>]_vars
  /\ [][pc = "llm" => currentModel' = currentModel]_vars
  /\ [](pc = "llm" => llmHistory = conversationHistory)

\* a switch of the provider has been accepted right after an exchange, whose
\* reply is still being played
C11_SwitchedAfterExchange ==
  /\ lastLog = "Switched AI Model"
  /\ currentModel # DEFAULT_MODEL
  /\ conversationHistory = <<>>
  /\ sessionReplies # <<>>

\* the model that follows m, and the voice index that follows i, in the
\* order the claim gives
followingModel(m) ==
  CASE m = "gpt" -> "openrouter"
    [] m = "openrouter" -> "fireworks"
    [] m = "fireworks" -> "gpt"
followingIndex(i) == IF i = Len(PUNJABI_VOICE_NAMES) - 1 THEN 0 ELSE i + 1

\* C12: every accepted switch moves the provider, and the voice, to the next
\* element of its list, the last element being followed by the first, so
\* that as many switches as the list has elements restore the selection.
C12_SelectionsCycle ==
  /\ [][(handleSwitchModelButtonPressed /\ ~isInteracting) =>
          currentModel' = followingModel(currentModel)]_vars
  /\ [][(handleSwitchVoiceButtonPressed /\ ~isInteracting) =>
          /\ currentPunjabiVoiceIndex' = followingIndex(currentPunjabiVoiceIndex)
          /\ currentPunjabiVoice' =
               PUNJABI_VOICE_NAMES[currentPunjabiVoiceIndex' + 1]]_vars
  /\ [](currentPunjabiVoice = PUNJABI_VOICE_NAMES[currentPunjabiVoiceIndex + 1])

\* the provider has wrapped around to the first model
C12_ModelWrapped ==
  /\ lastLog = "Switched AI Model"
  /\ currentModel = availableModels[1]
\* C13: in every reachable state the active LED is on if and only if the
\* capture is recording (AudioHandler.isRecording).
C13_LedIffRecording ==
  ledActive <=> isRecording

\* C13 as amended: the active LED is on whenever a capture is recording, and
\* it is on only while the session of that capture waits for its completion
\* poll, which turns it off when it finds the capture ended.
C13_LedFromPressToPoll ==
  /\ isRecording => ledActive
  /\ ledActive => (isInteracting /\ pollIntervals = 1 /\ pc = "none")

\* the capture has ended and the poll has not ticked yet: the LED is still on
C13_LedOnAfterCapture ==
  /\ ledActive
  /\ ~isRecording
  /\ endedBy = "timer"
\* the step of the cleanup pass at which the status LED goes off
statusOffAt ==
  CHOOSE i \in 1..Len(cleanupSteps) :
    /\ cleanupSteps[i] = "ledStatus.writeSync(0)"
    /\ \A j \in 1..(i - 1) : cleanupSteps[j] # "ledStatus.writeSync(0)"

\* C14: the status LED is on from start until shutdown, and in the cleanup
\* pass it goes off last: after the active LED is off and after every other
\* cleanup step has run.
C14_StatusLedLastOff ==
  /\ running => ledStatus
  /\ ~running => statusOffAt = Len(cleanupSteps)

\* the process has exited from a running capture: the cleanup pass began with
\* the status LED and went on to the active LED, the lines and the file
C14_StatusLedFirstOff ==
  /\ ~running
  /\ exitedFrom = "Recording"
  /\ cleanupSteps[1] = "ledStatus.writeSync(0)"
  /\ Len(cleanupSteps) = 6
\* C15: whatever state the termination signal arrives in, after the cleanup
\* pass both LEDs are off, the GPIO lines are released, and neither the
\* recording file nor the playback file remains.
C15_CleanupLeavesNothing ==
  ~running =>
     /\ ~ledStatus
     /\ ~ledActive
     /\ ~gpioExported
     /\ ~recordingFile
     /\ ~playbackFile

\* the process has exited while a clip was being played, and the playback
\* file is still there
C15_PlaybackFileLeft ==
  /\ ~running
  /\ exitedFrom = "Playing"
  /\ playbackFile
\* a stopRecording promise settles in this step
stopRecordingCompletes ==
  \E call \in StopCalls, r \in StopResults : stopRecordingSettles(call, r)

NoAudioObserved == "No audio data received after recording stopped."

\* C17: a failure of the recorder ends the capture at once and hands no audio
\* to the pipeline, and what the controller then observes differs from what
\* it observes of a capture that stopped normally.
C17_FailureToldApart ==
  /\ [][recorderError => (~isRecording' /\ pc' = "none")]_vars
  /\ [][(checkRecordingInterval /\ endedBy = "error") =>
          (pc' = "none" /\ lastLog' = NoAudioObserved)]_vars
  /\ [][(checkRecordingInterval /\ endedBy = "timer") =>
          lastLog' # NoAudioObserved]_vars

\* the recorder has failed and the poll has not ticked yet
C17_RecorderFailed ==
  /\ endedBy = "error"
  /\ ~isRecording
  /\ pollIntervals = 1
  /\ isInteracting
\* C18: when the silence policy ends the recorder, the capture leaves
\* Recording at that point, without waiting for the duration timer.
C18_SilenceStopsCapture ==
  [][recorderSilence => ~isRecording']_vars

\* the recorder has ended on silence and the capture still counts as
\* recording, its duration timer armed
C18_WaitingForTimerAfterSilence ==
  /\ isRecording
  /\ ~recorderRunning
  /\ durationTimers.own = 1
  /\ ledActive
\* C19: while a capture started by a record press is recording, a further
\* record press stops that capture (and its audio goes on to processing).
C19_PressStopsCapture ==
  [][(handleRecordButtonPressed /\ isRecording) => ~isRecording']_vars

\* a record press during a running capture has been turned away
C19_PressIgnoredWhileRecording ==
  /\ isRecording
  /\ recorderRunning
  /\ lastLog = "Interaction already in progress. Button press ignored."

\* C20: every capture leaves Recording when its duration timer fires at the
\* latest: while it is recording that timer is armed, the firing of the timer
\* leaves it not recording, and so every capture ends, whatever the recorder
\* and the buttons do meanwhile.
C20_CaptureEndsByTimer ==
  /\ [](isRecording => durationTimers.own = 1)
  /\ [][durationTimeout(TRUE) => ~isRecording']_vars
  /\ (isRecording ~> ~isRecording)

\* the duration timer of a capture has fired and stopped it
C20_StoppedByTimer ==
  /\ endedBy = "timer"
  /\ teardowns = 1
  /\ ~isRecording
  /\ durationTimers.own = 0
\* the order of the awaits of processAudio (main.js:113, 121, 137-156) and
\* of announceMessage (main.js:50-56): from one await to the next
stageOrder ==
  {<<"none", "stt">>, <<"stt", "llm">>, <<"stt", "tts">>, <<"llm", "tts">>,
   <<"tts", "none">>}

\* C21: the stages of one session run in the order transcribe, infer,
\* synthesize, play: a stage starts only when the one before it has returned,
\* the clip is handed to playback only when the synthesis returns, and
\* processAudio starts once per session, by the one poll of that session.
C21_StagesInOrder ==
  /\ [][(pc' # pc /\ running') => <<pc, pc'>> \in stageOrder]_vars
  /\ [][Len(sessionReplies') > Len(sessionReplies) =>
          /\ pc = "tts" /\ pc' = "none"
          /\ Len(sessionReplies') = Len(sessionReplies) + 1]_vars
  /\ [][(pc = "none" /\ pc' = "stt") =>
          (isInteracting /\ pollIntervals = 1 /\ pollIntervals' = 0)]_vars
  /\ [](pc # "none" => (isInteracting /\ pollIntervals = 0 /\ awaitedStops = 0))
  /\ [][(pc = "tts" /\ pc' = "none") => ~isInteracting']_vars

\* a session has gone through all four stages: its exchange is in the
\* history and its reply is being played
C21_ReplyPlayedAfterAllStages ==
  /\ lastLog = "Interaction finished."
  /\ sessionReplies # <<>>
  /\ conversationHistory # <<>>
  /\ conversationHistory[Len(conversationHistory)].content = Reply(1)

\* C22: while processAudio of a session is in progress a record press starts
\* no capture and no session, so no second processAudio run can begin beside
\* it, and the history is changed only by the run in progress.
C22_NoOverlappingSessions ==
  /\ [][(handleRecordButtonPressed /\ pc # "none") =>
          UNCHANGED <<isInteracting, isRecording, recording, recorderRunning,
                      durationTimers, pollIntervals, conversationHistory,
                      pc>>]_vars
  /\ [](pc # "none" => (~isRecording /\ openSessions = 1))
  /\ [][(pc # "none" /\ conversationHistory' # conversationHistory) =>
          (speechToTextReturns("text") \/ getAiResponseReturns("reply")
             \/ getAiResponseReturns("error") \/ ~running')]_vars

\* a record press has been turned away while the inference call of a session
\* was in flight, the transcript of that session already in the history
C22_PressRejectedDuringInference ==
  /\ pc = "llm"
  /\ lastLog = "Interaction already in progress. Button press ignored."
  /\ conversationHistory = <<[role |-> "user", content |-> Transcript(1)]>>

\* the transcription of the session returns an empty transcript in this step
emptyTranscriptReturned == pc = "stt" /\ stages'.stt = "empty"

\* C23: an empty transcript invokes neither the inference step nor the
\* synthesis step, leaves the history unchanged, and its outcome differs from
\* that of a failed transcription.
C23_EmptyTranscriptSkipsBothStages ==
  [][emptyTranscriptReturned =>
       /\ pc' \notin {"llm", "tts"}
       /\ UNCHANGED conversationHistory
       /\ utterance' # SorryUnderstand]_vars

\* C23 as amended: an empty transcript invokes no inference and leaves the
\* history unchanged; the synthesis step is invoked once, for the fixed
\* English notice that nothing was heard, which is another utterance than
\* the apology a failed transcription is answered with.
C23_EmptyTranscriptSpeaksNotice ==
  /\ [][emptyTranscriptReturned =>
          /\ pc' = "tts"
          /\ utterance' = DidNotCatch
          /\ utteranceVoice' = ENGLISH_VOICE_NAME
          /\ UNCHANGED <<conversationHistory, llmHistory>>]_vars
  /\ [](stages.stt = "empty" =>
          (pc = "tts" /\ stages.llm = "none" /\ utterance = DidNotCatch))
  /\ [](stages.stt = "null" =>
          (pc = "tts" /\ stages.llm = "none" /\ utterance = SorryUnderstand))
  /\ [](DidNotCatch # SorryUnderstand)

\* the session of an empty transcript waits for the synthesis of its notice
C23_NoticeAwaitsSynthesis ==
  /\ stages.stt = "empty"
  /\ pc = "tts"
  /\ utterance = DidNotCatch
  /\ utteranceVoice = ENGLISH_VOICE_NAME

\* C24: an inference request goes to the provider selected when it was made,
\* which does not change while the request is in flight, the request returns
\* once, and when the provider fails the caller is given a failure, not a
\* reply: it takes the branch of main.js:138-146.
C24_ProviderFailureSurfaced ==
  /\ [][pc = "llm" => (currentModel' = currentModel \/ ~running')]_vars
  /\ [][getAiResponseReturns("error") =>
          /\ pc' = "tts"
          /\ lastLog' = "Failed to get AI response."
          /\ aiResponseText("error", transcript) = NoUtterance]_vars

\* the provider has failed and the caller has taken the text of the failure
\* for the reply: it is in the history and about to be spoken as the answer
C24_FailureTakenForReply ==
  /\ pc = "tts"
  /\ stages.llm = "error"
  /\ lastLog = "AI responded"
  /\ utteranceVoice = currentPunjabiVoice
  /\ conversationHistory[Len(conversationHistory)] =
       [role |-> "assistant", content |-> ApiErrorText(transcript)]

\* a button handler runs in this step
buttonPressed ==
  \/ handleRecordButtonPressed
  \/ handleSwitchModelButtonPressed
  \/ handleSwitchVoiceButtonPressed

\* C25: the controller is Idle again only when the playback of the session's
\* utterance has completed: while the clip is being played the session is
\* still open, and a record press or a switch press changes nothing.
C25_IdleOnlyAfterPlayback ==
  /\ [][(pc = "tts" /\ pc' = "none" /\ sessionReplies' # <<>>) =>
          isInteracting']_vars
  /\ [][(buttonPressed /\ sessionReplies # <<>>) =>
          UNCHANGED <<appVars, isRecording, announcements>>]_vars

\* the voice has been switched while the reply of a session was being played
C25_SwitchedDuringReply ==
  /\ lastLog = "Switched Punjabi Voice"
  /\ sessionReplies # <<>>
  /\ ~isInteracting
  /\ controllerState = "Playing"

\* a playback finishes in this step
playbackEnds == \E i \in 1..Len(playing) : playbackFinished(i)

\* C26: the temporary playback file is deleted once, when the playback that
\* wrote it has finished: it is there while any playback is running, each
\* finished playback finds its file to delete, and no file is left when the
\* last playback has finished, also when two announcements overlap.
C26_PlaybackFileDeletedOnce ==
  /\ [](playing # <<>> => playbackFile)
  /\ [][playbackEnds => playbackFile]_vars
  /\ []((running /\ playing = <<>>) => ~playbackFile)

\* two announcements made outside a session overlapped: the first to finish
\* has deleted the file the other is still playing
C26_FileGoneDuringPlayback ==
  /\ detachedPlaybacks # <<>>
  /\ sessionReplies = <<>>
  /\ ~playbackFile


C29_StartWhileRecordingRejected ==
  [][(callStartRecording /\ isRecording) =>
       /\ ~startRecordingReturns
       /\ lastLog' = "Recording is already in progress."
       /\ UNCHANGED <<audioVars, timerVars, obsVars>>]_vars

\* startRecording has been called during a capture and has been rejected: the
\* capture goes on with its one timer
C29_SecondStartRejected ==
  /\ lastLog = "Recording is already in progress."
  /\ isRecording
  /\ recorderRunning
  /\ durationTimers = [own |-> 1, stale |-> 0]

\* C30: the duration timer of an earlier capture, firing while a later
\* capture is recording, does not stop the later capture: a capture is
\* stopped by a timer only when its own timer fires.
C30_TimerStopsOwnCaptureOnly ==
  /\ [][durationTimeout(FALSE) => UNCHANGED <<isRecording, recorderRunning>>]_vars
  /\ [](endedBy # "stale timer")

\* a capture has been stopped by the timer of the capture before it, its own
\* timer still armed
C30_StoppedByStaleTimer ==
  /\ endedBy = "stale timer"
  /\ ~isRecording
  /\ durationTimers = [own |-> 1, stale |-> 0]
  /\ isInteracting

\* C31: a capture is recording only inside an interaction (isRecording
\* implies isInteracting), and at most one completion-poll interval is armed.
C31_RecordingInsideInteraction ==
  /\ isRecording => isInteracting
  /\ pollIntervals <= 1
  /\ isRecording => pollIntervals = 1

\* a second capture is recording inside its interaction, its poll armed,
\* while the duration timer of the capture before it is still armed
C31_SecondCaptureRecording ==
  /\ isRecording
  /\ isInteracting
  /\ pollIntervals = 1
  /\ durationTimers = [own |-> 1, stale |-> 1]

\* C32: the message list of the inference call is the system message, then
\* the earlier completed exchanges in order, then the transcript of this
\* session, once, as the final message.
C32_TranscriptSentOnce ==
  pc = "llm" =>
    /\ sentMessages[1].role = "system"
    /\ sentMessages[Len(sentMessages)] =
         [role |-> "user", content |-> Transcript(transcript)]
    /\ Cardinality({i \in 1..Len(sentMessages) :
                      sentMessages[i].content = Transcript(transcript)}) = 1
    /\ Paired(SubSeq(sentMessages, 2, Len(sentMessages) - 1))

\* the inference call of a first exchange is in flight with three messages:
\* the system message and the transcript twice
C32_TranscriptSentTwice ==
  /\ pc = "llm"
  /\ Len(sentMessages) = 3
  /\ sentMessages[2] = sentMessages[3]
  /\ sentMessages[3].content = Transcript(1)

\* C33: in every reachable state the active provider is one of gpt,
\* openrouter, fireworks, the voice index is within the voice list, and the
\* current voice is the entry of the list at that index.
C33_SelectionWellFormed ==
  /\ \E i \in 1..Len(availableModels) : currentModel = availableModels[i]
  /\ currentPunjabiVoiceIndex \in 0..(Len(PUNJABI_VOICE_NAMES) - 1)
  /\ currentPunjabiVoice = at(PUNJABI_VOICE_NAMES, currentPunjabiVoiceIndex)

\* the controller has opened a session on a provider outside the list, the
\* voice switched once before
C33_SessionOnUnlistedModel ==
  /\ indexOf(availableModels, currentModel) = -1
  /\ isInteracting
  /\ currentPunjabiVoiceIndex = 1

\* C34: an accepted switch-voice press leaves the model and the history
\* unchanged, an accepted switch-model press leaves the voice index and the
\* voice unchanged, and neither changes isInteracting or the two LEDs.
C34_SwitchesIndependent ==
  /\ [][(handleSwitchVoiceButtonPressed /\ ~isInteracting) =>
          UNCHANGED <<currentModel, conversationHistory, isInteracting,
                      ledActive, ledStatus>>]_vars
  /\ [][(handleSwitchModelButtonPressed /\ ~isInteracting) =>
          UNCHANGED <<currentPunjabiVoiceIndex, currentPunjabiVoice,
                      isInteracting, ledActive, ledStatus>>]_vars

\* the voice has been switched after an exchange on a model other than the
\* default: the exchange is still in the history
C34_VoiceSwitchedKeepingHistory ==
  /\ lastLog = "Switched Punjabi Voice"
  /\ currentModel # DEFAULT_MODEL
  /\ Len(conversationHistory) = 2
  /\ currentPunjabiVoiceIndex = 1

\* C35: in the socket gateway, once a client's disconnect has been handled
\* neither clientLanguages nor clientConversations holds an entry for that
\* client id, in this state and in every later one, whether or not a
\* speech-to-text request of the client was in flight at the disconnect.
C35_NoEntryAfterDisconnect ==
  \A c \in Clients :
    sockets[c] = "disconnected" =>
      /\ ~MapHas(clientLanguages, c)
      /\ ~MapHas(clientConversations, c)

\* The request of a client that has disconnected has set a conversation for
\* its client id again.
C35_ConversationOfDisconnectedClient ==
  \E r \in 1..Len(requests) :
    LET c == requests[r].client
    IN /\ sockets[c] = "disconnected"
       /\ requests[r].pc \in {"textToSpeech", "done"}
       /\ MapHas(clientConversations, c)
       /\ ~MapHas(clientLanguages, c)
       /\ arrays[clientConversations[c]] # <<>>

\* C36: in the socket gateway, a speech-to-text request of a client that has
\* selected a provider is answered by the provider that client selected,
\* whatever messages other clients send while the request is handled.
C36_ServedBySelectedProvider ==
  \A r \in 1..Len(requests) :
    (requests[r].provider # "none" /\ requests[r].selected # "none") =>
      requests[r].provider = requests[r].selected

\* A request that named its provider in its own payload was answered by the
\* provider another client selected while the request was being transcribed.
C36_ServedByAnotherClientsProvider ==
  \E r \in 1..Len(requests), other \in Clients :
    LET c == requests[r].client
    IN /\ other # c
       /\ requests[r].emitted = "text-to-speech"
       /\ requests[r].selected = clientData[c].apiProvider
       /\ requests[r].provider # requests[r].selected
       /\ requests[r].provider = selectedProvider[other]
====
